---- MODULE Spec2Model ----
(***************************************************************************)
(* Playback engine of the terminal music player.                           *)
(*                                                                         *)
(*   moz.cpp : PipeWire player.  Transport state is four global atomics;   *)
(*             a session is a heap PWData (sound file, main loop, stream,  *)
(*             loop thread) reached through the global g_pw_data.          *)
(*   mz.cpp  : PortAudio player.  The session is the pair (stream, sf) of  *)
(*             locals of run_playback_tui.                                 *)
(*                                                                         *)
(* Threads of moz.cpp: the control thread "ctl" (UI loops), the play       *)
(* thread "play" of progressive_stream_youtube, one loop thread per        *)
(* session, and the stream's process callback on_process.                  *)
(***************************************************************************)
EXTENDS Integers, Sequences, FiniteSets, TLC

\* ---- bounds of the model ----
MaxFrames == 2      \* longest sound file, in frames
MaxReq == 2         \* largest frame count one callback asks for
MaxSessions == 2    \* PWData objects allocated over one run
MaxFiles == 2       \* most .mp3 entries of the music directory


Ids == 1..MaxSessions
Vids == {1, 2}      \* the video ids of the search results
Threads == {"ctl", "play"}

VARIABLES
    is_playing, is_paused, total_frames, current_frame,
    g_pw_data,      \* 0 is nullptr, otherwise the id of the PWData it points to
    sess,           \* the PWData objects ever allocated, by id
    nextId,         \* id the next "new PWData()" gets
    pc, ret, sret,  \* per thread: position, return address of PlayAudio / StopAudio
    arg,            \* per thread: the file_path argument of PlayAudio
    pa_res,         \* how the PlayAudio call that just returned ended
    mode,           \* result of prompt_mode_selection
    fifo,           \* video ids whose /tmp/moz_stream_<id>.fifo exists
    cache,          \* per video id: frames in the cache file, -1 when absent
    prod,           \* the yt-dlp | ffmpeg | tee pipeline
    sel,            \* online mode: the selected video and how its loop ended
    mz,             \* mz.cpp: the locals of run_playback_tui and the stream
    files,          \* moz.cpp run_playback_tui: files.size(), the .mp3 entries found
    selected_item   \* moz.cpp run_playback_tui: the highlighted entry

vars == <<is_playing, is_paused, total_frames, current_frame, g_pw_data, sess,
          nextId, pc, ret, sret, arg, pa_res, mode, fifo, cache, prod, sel, mz,
          files, selected_item>>

transport == <<is_playing, is_paused, total_frames, current_frame>>
pipeline == <<fifo, cache, prod>>
browser == <<files, selected_item>>

\* ---- PWData (moz.cpp 214-224) ----
\* A handle is "null", "open", "released" (destroyed / closed / deleted once)
\* or "invalid" (released again, or released while null).  eos: a read of this
\* session has returned zero frames.  stale: frames of the buffer last queued
\* that were neither read from the file nor zeroed.
NullSession ==
    [pw |-> "null", loop |-> "null", stream |-> "null", sf |-> "null",
     thr |-> "none", running |-> FALSE, conn |-> FALSE,
     kind |-> "none", len |-> 0, pos |-> 0, cb |-> "idle", n |-> 0,
     eos |-> FALSE, stale |-> 0]

Release(h) == IF h = "open" THEN "released" ELSE "invalid"
ReleaseIfSet(h) == IF h = "null" THEN h ELSE Release(h)
Joinable(s) == s.thr \in {"spawned", "running", "exited"}

\* A deleted PWData: only what was done to its handles is left of it.
Gone == [NullSession EXCEPT !.pw = "released"]
Disposed(s) ==
    IF /\ s.pw = "released" /\ ~Joinable(s)
       /\ \A h \in {s.loop, s.stream, s.sf} : h \in {"null", "released"}
    THEN Gone
    ELSE [NullSession EXCEPT !.pw = s.pw, !.loop = s.loop, !.stream = s.stream,
                             !.sf = s.sf, !.thr = s.thr]

\* sources PlayAudio can be given
LocalFiles == {[kind |-> "bad", n |-> 0, vid |-> 0]}
              \cup {[kind |-> "file", n |-> k, vid |-> 0] : k \in 0..MaxFrames}
NoArg == [kind |-> "none", n |-> 0, vid |-> 0]
NoProd == [st |-> "none", vid |-> 0, left |-> 0, buf |-> 0]
NoSel == [vid |-> 0, how |-> "none", made |-> FALSE]
MzOff == [pc |-> "off", stream |-> "null", sf |-> "null", len |-> 0, pos |-> 0,
          cb |-> "idle", eos |-> FALSE, leaked |-> FALSE, misuse |-> FALSE,
          stale |-> 0, bound |-> FALSE]

Goto(t, l) == pc' = [pc EXCEPT ![t] = l]


\* ---- libsndfile, as the player consumes it ----
\* sf_seek(sf, 0, SF_SEEK_CUR): the absolute position, -1 on a pipe (not seekable)
SeekCur(s) == IF s.kind = "fifo" THEN -1 ELSE s.pos
\* sf_seek(sf, 0, SF_SEEK_END) followed by SF_SEEK_CUR
SeekEnd(s) == IF s.kind = "fifo" THEN -1 ELSE s.len
Min(a, b) == IF a < b THEN a ELSE b
\* the writer end of the FIFO is closed
WriterGone == prod.st \in {"none", "finished", "dead"}
CanReadNonBlocking(s, n) == TRUE

\* sf_readf_float does not return before it has n frames or the stream ended
CanRead(s, n) == s.kind = "file" \/ prod.buf >= n \/ WriterGone
FramesRead(s, n) == IF s.kind = "file" THEN Min(n, s.len - s.pos) ELSE Min(n, prod.buf)

\* ---- on_process (moz.cpp 233-273) ----
\* lines 258-261: frames set to zero behind a read of r out of n frames
ZeroFill(n, r) == IF r < n THEN n - r ELSE 0

CallbackCanRun(i) == sess[i].stream = "open" /\ sess[i].conn

\* lines 240-252: dequeue a buffer, compute n_frames, test is_paused
OnProcessBegin(i) ==
    /\ CallbackCanRun(i) /\ sess[i].cb = "idle"
    /\ \E n \in 1..MaxReq :
         IF is_paused
         THEN sess' = [sess EXCEPT ![i].stale = 0]
         ELSE sess' = [sess EXCEPT ![i].cb = "read", ![i].n = n]
    /\ UNCHANGED <<transport, g_pw_data, nextId, pc, ret, sret, arg, pa_res,
                   mode, browser, pipeline, sel, mz>>

\* lines 255-272: read, publish the position, zero-fill, clear is_playing on 0
OnProcessRead(i) ==
    /\ sess[i].cb = "read" /\ CanRead(sess[i], sess[i].n)
    /\ LET s == sess[i]
           r == FramesRead(s, s.n)
           s2 == [s EXCEPT !.pos = s.pos + r, !.cb = "idle", !.n = 0,
                           !.eos = @ \/ r = 0,
                           !.stale = s.n - r - ZeroFill(s.n, r)]
       IN /\ sess' = [sess EXCEPT ![i] = s2]
          /\ current_frame' = SeekCur(s2)
          /\ is_playing' = IF r = 0 THEN FALSE ELSE is_playing
          /\ prod' = IF s.kind = "fifo" THEN [prod EXCEPT !.buf = prod.buf - r] ELSE prod
    /\ UNCHANGED <<is_paused, total_frames, g_pw_data, nextId, pc, ret, sret, arg,
                   pa_res, mode, browser, fifo, cache, sel, mz>>

\* ---- the loop thread (moz.cpp 363-365) ----
\* pw_main_loop_run sets the loop's running flag, then iterates while it is set
LoopThreadRun(i) ==
    /\ sess[i].thr = "spawned"
    /\ sess' = [sess EXCEPT ![i].thr = "running", ![i].running = TRUE, ![i].conn = TRUE]
    /\ UNCHANGED <<transport, g_pw_data, nextId, pc, ret, sret, arg, pa_res, mode, browser, pipeline, sel, mz>>

LoopThreadExit(i) ==
    /\ sess[i].thr = "running" /\ ~sess[i].running
    /\ sess' = [sess EXCEPT ![i].thr = "exited"]
    /\ UNCHANGED <<transport, g_pw_data, nextId, pc, ret, sret, arg, pa_res, mode, browser, pipeline, sel, mz>>

\* ---- StopAudio (moz.cpp 368-390) ----
\* lines 369-377: the null test, the two flag writes, the quit request
StopAudioNoGuard(t) ==
    /\ pc[t] = "sa_entry"
    /\ is_playing' = FALSE /\ is_paused' = FALSE
    /\ IF g_pw_data = 0
       THEN Goto(t, "segv") /\ UNCHANGED sess
       ELSE /\ sess' = [sess EXCEPT ![g_pw_data].running =
                            IF sess[g_pw_data].loop # "null" THEN FALSE ELSE @]
            /\ Goto(t, "sa_join")
    /\ UNCHANGED <<total_frames, current_frame, g_pw_data, nextId, ret, sret, arg,
                   pa_res, mode, browser, pipeline, sel, mz>>

StopAudioBegin(t) ==
    /\ pc[t] = "sa_entry"
    /\ IF g_pw_data = 0
       THEN /\ Goto(t, sret[t])
            /\ sret' = [sret EXCEPT ![t] = "none"]
            /\ UNCHANGED <<transport, sess>>
       ELSE /\ is_playing' = FALSE /\ is_paused' = FALSE
            /\ sess' = [sess EXCEPT ![g_pw_data].running =
                            IF sess[g_pw_data].loop # "null" THEN FALSE ELSE @]
            /\ Goto(t, "sa_join")
            /\ UNCHANGED <<total_frames, current_frame, sret>>
    /\ UNCHANGED <<g_pw_data, nextId, ret, arg, pa_res, mode, browser, pipeline, sel, mz>>

\* lines 378-380: join blocks until pw_main_loop_run has returned
StopAudioJoin(t) ==
    /\ pc[t] = "sa_join"
    /\ IF Joinable(sess[g_pw_data])
       THEN /\ sess[g_pw_data].thr = "exited"
            /\ sess' = [sess EXCEPT ![g_pw_data].thr = "joined"]
       ELSE UNCHANGED sess
    /\ Goto(t, "sa_stream")
    /\ UNCHANGED <<transport, g_pw_data, nextId, ret, sret, arg, pa_res, mode, browser,
                   pipeline, sel, mz>>

StopAudioStreamKept(t) ==
    /\ pc[t] = "sa_stream"
    /\ Goto(t, "sa_rest")
    /\ UNCHANGED <<transport, g_pw_data, sess, nextId, ret, sret, arg, pa_res, mode, browser,
                   pipeline, sel, mz>>

\* line 381: pw_stream_destroy waits for a callback that is running
StopAudioStream(t) ==
    /\ pc[t] = "sa_stream"
    /\ sess[g_pw_data].cb = "idle"
    /\ sess' = [sess EXCEPT ![g_pw_data].stream = ReleaseIfSet(@)]
    /\ Goto(t, "sa_rest")
    /\ UNCHANGED <<transport, g_pw_data, nextId, ret, sret, arg, pa_res, mode, browser,
                   pipeline, sel, mz>>

StopAudioRestLeak(t) ==
    /\ pc[t] = "sa_rest"
    /\ sess' = [sess EXCEPT ![g_pw_data] = Disposed([@ EXCEPT !.pw = Release(@)])]
    /\ g_pw_data' = 0
    /\ Goto(t, "sa_ret")
    /\ UNCHANGED <<transport, nextId, ret, sret, arg, pa_res, mode, browser, pipeline, sel, mz>>

\* lines 382-389: destroy the loop, close the file, delete, reset the counters
StopAudioRest(t) ==
    /\ pc[t] = "sa_rest"
    /\ sess' = [sess EXCEPT ![g_pw_data] =
                    Disposed([@ EXCEPT !.loop = ReleaseIfSet(@), !.sf = ReleaseIfSet(@),
                                       !.pw = Release(@)])]
    /\ g_pw_data' = 0
    /\ total_frames' = 0 /\ current_frame' = 0
    /\ Goto(t, "sa_ret")
    /\ UNCHANGED <<is_playing, is_paused, nextId, ret, sret, arg, pa_res, mode, browser,
                   pipeline, sel, mz>>

\* line 390: StopAudio returns to its caller
StopAudioReturn(t) ==
    /\ pc[t] = "sa_ret"
    /\ Goto(t, sret[t])
    /\ sret' = [sret EXCEPT ![t] = "none"]
    /\ UNCHANGED <<transport, g_pw_data, sess, nextId, ret, arg, pa_res, mode, browser,
                   pipeline, sel, mz>>

StopAudio(t) ==
    \/ StopAudioBegin(t)
    \/ StopAudioJoin(t)
    \/ StopAudioStream(t)
    \/ StopAudioRest(t)
    \/ StopAudioReturn(t)

\* ---- PlayAudio (moz.cpp 281-366) ----
Return(t) ==
    /\ Goto(t, ret[t])
    /\ ret' = [ret EXCEPT ![t] = "none"]
    /\ arg' = [arg EXCEPT ![t] = NoArg]

PlayAudioEntryNoStop(t) ==
    /\ pc[t] = "pa_entry"
    /\ Goto(t, "pa_new")
    /\ UNCHANGED <<transport, g_pw_data, sess, nextId, ret, sret, arg, pa_res, mode, browser, pipeline, sel, mz>>

\* lines 283-285: stop any existing playback first
PlayAudioEntry(t) ==
    /\ pc[t] = "pa_entry"
    /\ IF g_pw_data # 0
       THEN Goto(t, "sa_entry") /\ sret' = [sret EXCEPT ![t] = "pa_new"]
       ELSE Goto(t, "pa_new") /\ UNCHANGED sret
    /\ UNCHANGED <<transport, g_pw_data, sess, nextId, ret, arg, pa_res, mode, browser, pipeline, sel, mz>>

\* lines 287-288: new PWData(), value-initialised
PlayAudioNew(t) ==
    /\ pc[t] = "pa_new"
    /\ sess' = [sess EXCEPT ![nextId] = [NullSession EXCEPT !.pw = "open"]]
    /\ g_pw_data' = nextId
    /\ nextId' = nextId + 1
    /\ Goto(t, "pa_open")
    /\ UNCHANGED <<transport, ret, sret, arg, pa_res, mode, browser, pipeline, sel, mz>>

\* lines 290-295: sf_open.  Opening the FIFO for reading blocks until the
\* writer has opened it; the decoder then accepts or rejects what it finds.
PlayAudioOpen(t) ==
    /\ pc[t] = "pa_open"
    /\ CASE arg[t].kind = "file" ->
              /\ sess' = [sess EXCEPT ![g_pw_data].sf = "open", ![g_pw_data].kind = "file",
                                      ![g_pw_data].len = arg[t].n]
              /\ Goto(t, "pa_seek")
              /\ UNCHANGED pipeline
         [] arg[t].kind = "fifo" ->
              /\ prod.st = "blocked" /\ prod.vid = arg[t].vid
              /\ prod' = [prod EXCEPT !.st = "writing"]
              /\ cache' = [cache EXCEPT ![prod.vid] = 0]
              /\ UNCHANGED fifo
              /\ \E decodable \in BOOLEAN :
                   IF decodable
                   THEN /\ sess' = [sess EXCEPT ![g_pw_data].sf = "open",
                                                ![g_pw_data].kind = "fifo"]
                        /\ Goto(t, "pa_seek")
                   ELSE /\ Goto(t, "pa_fail_open")
                        /\ UNCHANGED sess
         [] OTHER ->
              /\ Goto(t, "pa_fail_open")
              /\ UNCHANGED <<sess, pipeline>>
    /\ UNCHANGED <<transport, g_pw_data, nextId, ret, sret, arg, pa_res, mode, browser,
                   sel, mz>>

PlayAudioFailKeepsFile(t) ==
    /\ pc[t] \in {"pa_fail_open", "pa_fail_loop", "pa_fail_stream"}
    /\ LET s == sess[g_pw_data]
           s1 == IF pc[t] = "pa_fail_stream" THEN [s EXCEPT !.loop = Release(@)] ELSE s
           s2 == IF pc[t] = "pa_fail_loop" THEN [s1 EXCEPT !.sf = Release(@)] ELSE s1
       IN sess' = [sess EXCEPT ![g_pw_data] = Disposed([s2 EXCEPT !.pw = Release(@)])]
    /\ pa_res' = IF pc[t] = "pa_fail_open" THEN "open_error" ELSE "device_error"
    /\ Goto(t, "pa_null")
    /\ UNCHANGED <<transport, g_pw_data, nextId, ret, sret, arg, mode, browser,
                   pipeline, sel, mz>>

\* lines 292-294, 308-311, 327-331: release what this call allocated, then
\* "g_pw_data = nullptr" (a separate store: the pointer dangles in between)
PlayAudioFail(t) ==
    /\ pc[t] \in {"pa_fail_open", "pa_fail_loop", "pa_fail_stream"}
    /\ LET s == sess[g_pw_data]
           s1 == IF pc[t] = "pa_fail_stream" THEN [s EXCEPT !.loop = Release(@)] ELSE s
           s2 == IF pc[t] # "pa_fail_open" THEN [s1 EXCEPT !.sf = Release(@)] ELSE s1
       IN sess' = [sess EXCEPT ![g_pw_data] = Disposed([s2 EXCEPT !.pw = Release(@)])]
    /\ pa_res' = IF pc[t] = "pa_fail_open" THEN "open_error" ELSE "device_error"
    /\ Goto(t, "pa_null")
    /\ UNCHANGED <<transport, g_pw_data, nextId, ret, sret, arg, mode, browser,
                   pipeline, sel, mz>>

PlayAudioNull(t) ==
    /\ pc[t] = "pa_null"
    /\ g_pw_data' = 0
    /\ Return(t)
    /\ UNCHANGED <<transport, sess, nextId, sret, pa_res, mode, browser, pipeline, sel, mz>>

PlayAudioSeekNoRewind(t) ==
    /\ pc[t] = "pa_seek"
    /\ total_frames' = SeekEnd(sess[g_pw_data])
    /\ sess' = [sess EXCEPT ![g_pw_data].pos = SeekEnd(sess[g_pw_data])]
    /\ current_frame' = 0
    /\ Goto(t, "pa_loop")
    /\ UNCHANGED <<is_playing, is_paused, g_pw_data, nextId, ret, sret, arg, pa_res,
                   mode, browser, pipeline, sel, mz>>

\* lines 297-301: total_frames from the end position, rewind, current_frame = 0
PlayAudioSeek(t) ==
    /\ pc[t] = "pa_seek"
    /\ total_frames' = SeekEnd(sess[g_pw_data])
    /\ sess' = [sess EXCEPT ![g_pw_data].pos = 0]
    /\ current_frame' = 0
    /\ Goto(t, "pa_loop")
    /\ UNCHANGED <<is_playing, is_paused, g_pw_data, nextId, ret, sret, arg, pa_res,
                   mode, browser, pipeline, sel, mz>>

\* lines 304-312: pw_init, pw_main_loop_new
PlayAudioLoop(t) ==
    /\ pc[t] = "pa_loop"
    /\ \/ /\ sess' = [sess EXCEPT ![g_pw_data].loop = "open"]
          /\ Goto(t, "pa_stream")
       \/ /\ Goto(t, "pa_fail_loop")
          /\ UNCHANGED sess
    /\ UNCHANGED <<transport, g_pw_data, nextId, ret, sret, arg, pa_res, mode, browser,
                   pipeline, sel, mz>>

\* lines 315-332: pw_stream_new_simple
PlayAudioStream(t) ==
    /\ pc[t] = "pa_stream"
    /\ \/ /\ sess' = [sess EXCEPT ![g_pw_data].stream = "open"]
          /\ Goto(t, "pa_start")
       \/ /\ Goto(t, "pa_fail_stream")
          /\ UNCHANGED sess
    /\ UNCHANGED <<transport, g_pw_data, nextId, ret, sret, arg, pa_res, mode, browser,
                   pipeline, sel, mz>>

\* lines 334-366: pw_stream_connect, then the loop thread is started
PlayAudioStart(t) ==
    /\ pc[t] = "pa_start"
    /\ sess' = [sess EXCEPT ![g_pw_data].thr = "spawned"]
    /\ pa_res' = "ok"
    /\ Return(t)
    /\ UNCHANGED <<transport, g_pw_data, nextId, sret, mode, browser, pipeline, sel, mz>>

PlayAudio(t) ==
    \/ PlayAudioEntry(t)
    \/ PlayAudioNew(t)
    \/ PlayAudioOpen(t)
    \/ PlayAudioFail(t)
    \/ PlayAudioNull(t)
    \/ PlayAudioSeek(t)
    \/ PlayAudioLoop(t)
    \/ PlayAudioStream(t)
    \/ PlayAudioStart(t)

\* ---- run_playback_tui (moz.cpp 792-937) ----
\* lines 893-899: Enter clears the flags when playing, then calls PlayAudio
\* with files[selected_item], read without a test of the index.  What the entry
\* names, and what a read outside the list yields, is any source.
TuiEnter ==
    /\ mode = "offline" /\ pc["ctl"] = "tui"
    /\ nextId <= MaxSessions
    /\ \E f \in LocalFiles :
         /\ arg' = [arg EXCEPT !["ctl"] = f]
         /\ ret' = [ret EXCEPT !["ctl"] = "enter_set"]
    /\ IF is_playing
       THEN is_playing' = FALSE /\ is_paused' = FALSE
       ELSE UNCHANGED <<is_playing, is_paused>>
    /\ Goto("ctl", "pa_entry")
    /\ UNCHANGED <<total_frames, current_frame, g_pw_data, sess, nextId, sret, pa_res,
                   mode, browser, pipeline, sel, mz>>

\* line 900: is_playing = true, whatever PlayAudio did
TuiEnterSet ==
    /\ pc["ctl"] = "enter_set"
    /\ is_playing' = TRUE
    /\ pa_res' = "none"
    /\ Goto("ctl", "tui")
    /\ UNCHANGED <<is_paused, total_frames, current_frame, g_pw_data, sess, nextId,
                   ret, sret, arg, mode, browser, pipeline, sel, mz>>

\* line 890: selected_item < files.size() - 1.  The subtraction is done in
\* size_t: for an empty list it wraps to the largest size_t, which every
\* selected_item >= 0 is below.
BelowLast(k, n) == IF n = 0 THEN k >= 0 ELSE k < n - 1

\* lines 886-888: KEY_UP
TuiUp ==
    /\ mode = "offline" /\ pc["ctl"] = "tui"
    /\ selected_item' = IF selected_item > 0 THEN selected_item - 1 ELSE selected_item
    /\ UNCHANGED <<transport, g_pw_data, sess, nextId, pc, ret, sret, arg, pa_res, mode,
                   files, pipeline, sel, mz>>

\* lines 889-891: KEY_DOWN; the count of an empty list stops at MaxFiles
TuiDown ==
    /\ mode = "offline" /\ pc["ctl"] = "tui"
    /\ BelowLast(selected_item, files) => selected_item < MaxFiles
    /\ selected_item' = IF BelowLast(selected_item, files)
                        THEN selected_item + 1 ELSE selected_item
    /\ UNCHANGED <<transport, g_pw_data, sess, nextId, pc, ret, sret, arg, pa_res, mode,
                   files, pipeline, sel, mz>>

\* line 903: the test of is_playing of the Space key
TuiSpace ==
    /\ mode = "offline" /\ pc["ctl"] = "tui"
    /\ IF is_playing THEN Goto("ctl", "space_toggle") ELSE UNCHANGED pc
    /\ UNCHANGED <<transport, g_pw_data, sess, nextId, ret, sret, arg, pa_res, mode, browser, pipeline, sel, mz>>

\* line 904: is_paused = !is_paused
TuiToggle ==
    /\ pc["ctl"] = "space_toggle"
    /\ is_paused' = ~is_paused
    /\ Goto("ctl", "tui")
    /\ UNCHANGED <<is_playing, total_frames, current_frame, g_pw_data, sess, nextId,
                   ret, sret, arg, pa_res, mode, browser, pipeline, sel, mz>>

\* line 809: Escape leaves the loop
TuiEscape ==
    /\ mode = "offline" /\ pc["ctl"] = "tui"
    /\ Goto("ctl", "xc_entry")
    /\ UNCHANGED <<transport, g_pw_data, sess, nextId, ret, sret, arg, pa_res, mode, browser, pipeline, sel, mz>>

ExitCleanupKeepsPointer ==
    /\ \/ /\ pc["ctl"] = "xc_entry"
          /\ IF g_pw_data = 0
             THEN Goto("ctl", "mc_entry") /\ UNCHANGED sess
             ELSE /\ sess' = [sess EXCEPT ![g_pw_data].running = FALSE]
                  /\ Goto("ctl", "xc_join")
       \/ /\ pc["ctl"] = "xc_join"
          /\ IF Joinable(sess[g_pw_data])
             THEN /\ sess[g_pw_data].thr = "exited"
                  /\ sess' = [sess EXCEPT ![g_pw_data].thr = "joined"]
             ELSE UNCHANGED sess
          /\ Goto("ctl", "xc_stream")
       \/ /\ pc["ctl"] = "xc_stream"
          /\ sess[g_pw_data].cb = "idle"
          /\ sess' = [sess EXCEPT ![g_pw_data].stream = ReleaseIfSet(@)]
          /\ Goto("ctl", "xc_rest")
       \/ /\ pc["ctl"] = "xc_rest"
          /\ sess' = [sess EXCEPT ![g_pw_data] =
                          Disposed([@ EXCEPT !.loop = ReleaseIfSet(@),
                                             !.sf = ReleaseIfSet(@), !.pw = Release(@)])]
          /\ Goto("ctl", "mc_entry")
    /\ UNCHANGED <<transport, g_pw_data, nextId, ret, sret, arg, pa_res, mode, browser, pipeline,
                   sel, mz>>

\* lines 914-936: the exit cleanup of run_playback_tui
ExitCleanup ==
    /\ \/ /\ pc["ctl"] = "xc_entry"
          /\ IF g_pw_data = 0
             THEN Goto("ctl", "mc_entry") /\ UNCHANGED sess
             ELSE /\ sess' = [sess EXCEPT ![g_pw_data].running = FALSE]
                  /\ Goto("ctl", "xc_join")
          /\ UNCHANGED g_pw_data
       \/ /\ pc["ctl"] = "xc_join"
          /\ IF Joinable(sess[g_pw_data])
             THEN /\ sess[g_pw_data].thr = "exited"
                  /\ sess' = [sess EXCEPT ![g_pw_data].thr = "joined"]
             ELSE UNCHANGED sess
          /\ Goto("ctl", "xc_stream")
          /\ UNCHANGED g_pw_data
       \/ /\ pc["ctl"] = "xc_stream"
          /\ sess[g_pw_data].cb = "idle"
          /\ sess' = [sess EXCEPT ![g_pw_data].stream = ReleaseIfSet(@)]
          /\ Goto("ctl", "xc_rest")
          /\ UNCHANGED g_pw_data
       \/ /\ pc["ctl"] = "xc_rest"
          /\ sess' = [sess EXCEPT ![g_pw_data] =
                          Disposed([@ EXCEPT !.loop = ReleaseIfSet(@),
                                             !.sf = ReleaseIfSet(@), !.pw = Release(@)])]
          /\ g_pw_data' = 0
          /\ Goto("ctl", "mc_entry")
    /\ UNCHANGED <<transport, nextId, ret, sret, arg, pa_res, mode, browser, pipeline,
                   sel, mz>>

\* ---- main (moz.cpp 991-1002): final cleanup; g_pw_data is not reset ----
MainCleanup ==
    /\ \/ /\ pc["ctl"] = "mc_entry"
          /\ IF g_pw_data = 0
             THEN Goto("ctl", "done") /\ UNCHANGED sess
             ELSE /\ sess' = [sess EXCEPT ![g_pw_data].running = FALSE]
                  /\ Goto("ctl", "mc_join")
       \/ /\ pc["ctl"] = "mc_join"
          /\ IF Joinable(sess[g_pw_data])
             THEN /\ sess[g_pw_data].thr = "exited"
                  /\ sess' = [sess EXCEPT ![g_pw_data].thr = "joined"]
             ELSE UNCHANGED sess
          /\ Goto("ctl", "mc_stream")
       \/ /\ pc["ctl"] = "mc_stream"
          /\ sess[g_pw_data].cb = "idle"
          /\ sess' = [sess EXCEPT ![g_pw_data].stream = Release(@)]
          /\ Goto("ctl", "mc_rest")
       \/ /\ pc["ctl"] = "mc_rest"
          /\ sess' = [sess EXCEPT ![g_pw_data] =
                          Disposed([@ EXCEPT !.loop = Release(@), !.sf = Release(@),
                                             !.pw = Release(@)])]
          /\ Goto("ctl", "done")
    /\ UNCHANGED <<transport, g_pw_data, nextId, ret, sret, arg, pa_res, mode, browser,
                   pipeline, sel, mz>>

\* ---- the producer: yt-dlp | ffmpeg | tee cache > fifo (moz.cpp 566-570) ----
\* system("pkill -f yt-dlp"); system("pkill -f ffmpeg")
Killed(p) == IF p.st \in {"blocked", "writing"}
             THEN [p EXCEPT !.st = "dead", !.left = 0] ELSE p

\* tee copies one more frame to the cache file and to the FIFO
ProducerWrite ==
    /\ prod.st = "writing" /\ prod.left > 0
    /\ prod' = [prod EXCEPT !.left = @ - 1, !.buf = @ + 1]
    /\ cache' = [cache EXCEPT ![prod.vid] = @ + 1]
    /\ UNCHANGED <<transport, g_pw_data, sess, nextId, pc, ret, sret, arg, pa_res,
                   mode, browser, fifo, sel, mz>>

\* the pipeline ends: end of the track, or the fetch failed
ProducerFinish ==
    /\ prod.st = "writing"
    /\ prod' = [prod EXCEPT !.st = "finished", !.left = 0]
    /\ UNCHANGED <<transport, g_pw_data, sess, nextId, pc, ret, sret, arg, pa_res,
                   mode, browser, fifo, cache, sel, mz>>

\* ---- run_online_mode (moz.cpp 651-719) ----
CacheFile(v) == IF cache[v] > 0 THEN [kind |-> "file", n |-> cache[v], vid |-> v]
                ELSE [kind |-> "bad", n |-> 0, vid |-> v]

\* line 662: an empty query leaves the loop
OnlineQuit ==
    /\ mode = "online" /\ pc["ctl"] = "search"
    /\ Goto("ctl", "mc_entry")
    /\ UNCHANGED <<transport, g_pw_data, sess, nextId, ret, sret, arg, pa_res, mode, browser, pipeline, sel, mz>>

OnlineSelectAlwaysStreams ==
    /\ mode = "online" /\ pc["ctl"] = "search"
    /\ nextId <= MaxSessions
    /\ \E v \in Vids :
         /\ sel' = [vid |-> v, how |-> "none", made |-> FALSE]
         /\ Goto("ctl", "s_stop")
    /\ UNCHANGED <<transport, g_pw_data, sess, nextId, ret, sret, arg, pa_res, mode, browser, pipeline, mz>>

\* lines 664-671, 716: a selection; the cache file decides the path
OnlineSelect ==
    /\ mode = "online" /\ pc["ctl"] = "search"
    /\ nextId <= MaxSessions
    /\ \E v \in Vids :
         /\ sel' = [vid |-> v, how |-> "none", made |-> FALSE]
         /\ Goto("ctl", IF cache[v] >= 0 THEN "c_stop" ELSE "s_stop")
    /\ UNCHANGED <<transport, g_pw_data, sess, nextId, ret, sret, arg, pa_res, mode, browser, pipeline, mz>>

OnlineStopSkipped ==
    /\ pc["ctl"] \in {"c_stop", "s_stop"}
    /\ Goto("ctl", IF pc["ctl"] = "c_stop" THEN "c_kill" ELSE "s_kill")
    /\ UNCHANGED <<transport, g_pw_data, sess, nextId, ret, sret, arg, pa_res, mode, browser, pipeline, sel, mz>>

\* lines 673-675 and 532-534: if (g_pw_data) StopAudio()
OnlineStop ==
    /\ pc["ctl"] \in {"c_stop", "s_stop"}
    /\ LET next == IF pc["ctl"] = "c_stop" THEN "c_kill" ELSE "s_kill"
       IN IF g_pw_data # 0
          THEN Goto("ctl", "sa_entry") /\ sret' = [sret EXCEPT !["ctl"] = next]
          ELSE Goto("ctl", next) /\ UNCHANGED sret
    /\ UNCHANGED <<transport, g_pw_data, sess, nextId, ret, arg, pa_res, mode, browser, pipeline, sel, mz>>

\* lines 676-678 and 536-539: pkill
OnlineKill ==
    /\ pc["ctl"] \in {"c_kill", "s_kill"}
    /\ prod' = Killed(prod)
    /\ Goto("ctl", IF pc["ctl"] = "c_kill" THEN "c_set" ELSE "s_mkfifo")
    /\ UNCHANGED <<transport, g_pw_data, sess, nextId, ret, sret, arg, pa_res, mode, browser, fifo, cache, sel, mz>>

\* lines 681-683: the flags are set, then PlayAudio on the control thread
CachedPlay ==
    /\ pc["ctl"] = "c_set"
    /\ is_playing' = TRUE /\ is_paused' = FALSE
    /\ arg' = [arg EXCEPT !["ctl"] = CacheFile(sel.vid)]
    /\ ret' = [ret EXCEPT !["ctl"] = "c_loop"]
    /\ Goto("ctl", "pa_entry")
    /\ UNCHANGED <<total_frames, current_frame, g_pw_data, sess, nextId, sret, pa_res,
                   mode, browser, pipeline, sel, mz>>

\* lines 691 and 607: while (is_playing)
OnlineLoop ==
    /\ pc["ctl"] \in {"c_loop", "s_loop"}
    /\ IF is_playing
       THEN /\ Goto("ctl", IF pc["ctl"] = "c_loop" THEN "c_key" ELSE "s_key")
            /\ UNCHANGED sel
       ELSE /\ Goto("ctl", IF pc["ctl"] = "c_loop" THEN "search" ELSE "s_join")
            /\ sel' = [sel EXCEPT !.how = IF @ = "none" THEN "self" ELSE @]
    /\ pa_res' = IF pc["ctl"] = "c_loop" THEN "none" ELSE pa_res
    /\ UNCHANGED <<transport, g_pw_data, sess, nextId, ret, sret, arg, mode, browser, pipeline, mz>>

OnlineKeyNoKill ==
    /\ pc["ctl"] \in {"c_key", "s_key"}
    /\ \E ch \in {"q", " ", "none"} :
         CASE ch = "q" ->
                /\ is_playing' = FALSE
                /\ sel' = [sel EXCEPT !.how = "q"]
                /\ UNCHANGED <<is_paused, prod>>
           [] ch = " " ->
                /\ is_paused' = ~is_paused
                /\ UNCHANGED <<is_playing, prod, sel>>
           [] OTHER -> UNCHANGED <<is_playing, is_paused, prod, sel>>
    /\ Goto("ctl", IF pc["ctl"] = "c_key" THEN "c_loop" ELSE "s_loop")
    /\ UNCHANGED <<total_frames, current_frame, g_pw_data, sess, nextId, ret, sret,
                   arg, pa_res, mode, browser, fifo, cache, mz>>

\* lines 692-699 and 608-618: one pass of the loop body
OnlineKey ==
    /\ pc["ctl"] \in {"c_key", "s_key"}
    /\ \E ch \in {"q", " ", "none"} :
         CASE ch = "q" ->
                /\ is_playing' = FALSE
                /\ prod' = IF pc["ctl"] = "s_key" THEN Killed(prod) ELSE prod
                /\ sel' = [sel EXCEPT !.how = "q"]
                /\ UNCHANGED is_paused
           [] ch = " " ->
                /\ is_paused' = ~is_paused
                /\ UNCHANGED <<is_playing, prod, sel>>
           [] OTHER -> UNCHANGED <<is_playing, is_paused, prod, sel>>
    /\ Goto("ctl", IF pc["ctl"] = "c_key" THEN "c_loop" ELSE "s_loop")
    /\ UNCHANGED <<total_frames, current_frame, g_pw_data, sess, nextId, ret, sret,
                   arg, pa_res, mode, browser, fifo, cache, mz>>

\* ---- progressive_stream_youtube (moz.cpp 527-646) ----
StreamMkfifoUnchecked ==
    /\ pc["ctl"] = "s_mkfifo"
    /\ \E ok \in BOOLEAN :
         IF ok
         THEN /\ fifo' = fifo \cup {sel.vid}
              /\ sel' = [sel EXCEPT !.made = TRUE]
         ELSE /\ fifo' = fifo \ {sel.vid}
              /\ UNCHANGED sel
    /\ Goto("ctl", "s_launch")
    /\ UNCHANGED <<transport, g_pw_data, sess, nextId, ret, sret, arg, pa_res, mode, browser, cache, prod, mz>>

\* lines 546-555: unlink the old FIFO, mkfifo; return when it fails
StreamMkfifo ==
    /\ pc["ctl"] = "s_mkfifo"
    /\ \E ok \in BOOLEAN :
         IF ok
         THEN /\ fifo' = fifo \cup {sel.vid}
              /\ sel' = [sel EXCEPT !.made = TRUE]
              /\ Goto("ctl", "s_launch")
         ELSE /\ fifo' = fifo \ {sel.vid}
              /\ UNCHANGED sel
              /\ Goto("ctl", "search")
    /\ UNCHANGED <<transport, g_pw_data, sess, nextId, ret, sret, arg, pa_res, mode, browser, cache, prod, mz>>

StreamLaunchUnchecked ==
    /\ pc["ctl"] = "s_launch"
    /\ \E ok \in BOOLEAN, len \in 0..MaxFrames :
         IF ok
         THEN prod' = [st |-> "blocked", vid |-> sel.vid, left |-> len, buf |-> 0]
         ELSE UNCHANGED prod
    /\ Goto("ctl", "s_set")
    /\ UNCHANGED <<transport, g_pw_data, sess, nextId, ret, sret, arg, pa_res, mode, browser, fifo, cache, sel, mz>>

\* lines 565-578: system(dl_command); on failure unlink the FIFO and return.
\* The launched pipeline blocks opening the FIFO for writing.
StreamLaunch ==
    /\ pc["ctl"] = "s_launch"
    /\ \E ok \in BOOLEAN, len \in 0..MaxFrames :
         IF ok
         THEN /\ prod' = [st |-> "blocked", vid |-> sel.vid, left |-> len, buf |-> 0]
              /\ UNCHANGED fifo
              /\ Goto("ctl", "s_set")
         ELSE /\ fifo' = fifo \ {sel.vid}
              /\ UNCHANGED prod
              /\ Goto("ctl", "search")
    /\ UNCHANGED <<transport, g_pw_data, sess, nextId, ret, sret, arg, pa_res, mode, browser, cache, sel, mz>>

\* lines 580-598: after the settle delay the flags are set and the play
\* thread is started on the FIFO path
StreamPlay ==
    /\ pc["ctl"] = "s_set"
    /\ is_playing' = TRUE /\ is_paused' = FALSE
    /\ arg' = [arg EXCEPT !["play"] = [kind |-> "fifo", n |-> 0, vid |-> sel.vid]]
    /\ ret' = [ret EXCEPT !["play"] = "done"]
    /\ pc' = [pc EXCEPT !["ctl"] = "s_loop", !["play"] = "pa_entry"]
    /\ UNCHANGED <<total_frames, current_frame, g_pw_data, sess, nextId, sret, pa_res,
                   mode, browser, pipeline, sel, mz>>

StreamJoinNoUnlink ==
    /\ pc["ctl"] = "s_join" /\ pc["play"] = "done"
    /\ pc' = [pc EXCEPT !["ctl"] = "search", !["play"] = "none"]
    /\ pa_res' = "none"
    /\ UNCHANGED <<transport, g_pw_data, sess, nextId, ret, sret, arg,
                   mode, browser, pipeline, sel, mz>>

\* lines 637-646: join the play thread, unlink the FIFO, return
StreamJoin ==
    /\ pc["ctl"] = "s_join" /\ pc["play"] = "done"
    /\ fifo' = fifo \ {sel.vid}
    /\ pc' = [pc EXCEPT !["ctl"] = "search", !["play"] = "none"]
    /\ pa_res' = "none"
    /\ UNCHANGED <<transport, g_pw_data, sess, nextId, ret, sret, arg,
                   mode, browser, cache, prod, sel, mz>>

\* ---- the program (moz.cpp) ----
Init ==
    /\ is_playing = FALSE /\ is_paused = FALSE
    /\ total_frames = 0 /\ current_frame = 0
    /\ g_pw_data = 0
    /\ sess = [i \in Ids |-> NullSession]
    /\ nextId = 1
    /\ mode \in {"offline", "online"}
    /\ pc = [t \in Threads |-> IF t = "play" THEN "none"
                               ELSE IF mode = "offline" THEN "tui" ELSE "search"]
    /\ ret = [t \in Threads |-> "none"]
    /\ sret = [t \in Threads |-> "none"]
    /\ arg = [t \in Threads |-> NoArg]
    /\ pa_res = "none"
    /\ fifo \in SUBSET Vids
    /\ cache \in [Vids -> {-1} \cup 1..MaxFrames]
    /\ mode = "offline" => (fifo = {} /\ \A v \in Vids : cache[v] = -1)
    /\ prod = NoProd
    /\ sel = NoSel
    /\ mz = MzOff
    /\ files \in (IF mode = "offline" THEN 0..MaxFiles ELSE {0})
    /\ selected_item = 0

Next ==
    \/ \E t \in Threads : PlayAudio(t) \/ StopAudio(t)
    \/ \E i \in Ids : \/ OnProcessBegin(i)
                      \/ OnProcessRead(i)
                      \/ LoopThreadRun(i)
                      \/ LoopThreadExit(i)
    \/ TuiEnter \/ TuiEnterSet \/ TuiSpace \/ TuiToggle \/ TuiEscape
    \/ TuiUp \/ TuiDown
    \/ ExitCleanup \/ MainCleanup
    \/ OnlineQuit \/ OnlineSelect \/ OnlineStop \/ OnlineKill
    \/ CachedPlay \/ OnlineLoop \/ OnlineKey
    \/ StreamMkfifo \/ StreamLaunch \/ StreamPlay \/ StreamJoin
    \/ ProducerWrite \/ ProducerFinish

Spec == Init /\ [][Next]_vars

\* ======================= mz.cpp (PortAudio) =======================
\* mz holds the locals of run_playback_tui (stream, sf), the position of the
\* control thread and of paCallback, and the open sound file's length/position.
\* A stream is "null" (never opened), "active" (started, the callback is being
\* invoked), "complete" (the callback returned paComplete), "stopped" or
\* "closed"; sf is "null", "open" or "closed".  bound: the variable sf holds
\* the sound file the stream in the variable stream was opened on (its userData).
mozIdle == <<g_pw_data, sess, nextId, pc, ret, sret, arg, mode, browser, pipeline, sel>>

StreamOpen(h) == h \in {"active", "complete", "stopped"}

\* ---- paCallback (mz.cpp 202-224) ----
\* lines 210-213: a paused callback writes silence and continues
PaCallbackBegin ==
    /\ mz.stream = "active" /\ mz.cb = "idle"
    /\ mz' = IF is_paused THEN [mz EXCEPT !.stale = 0] ELSE [mz EXCEPT !.cb = "read"]
    /\ UNCHANGED <<transport, pa_res, mozIdle>>

\* lines 215-223: read framesPerBuffer frames, publish the position, continue
\* only if frames were read and is_playing is set
PaCallbackRead ==
    /\ mz.stream = "active" /\ mz.cb = "read"
    /\ LET r == Min(MaxReq, mz.len - mz.pos)
           continue == r > 0 /\ is_playing
       IN /\ current_frame' = mz.pos + r
          /\ is_playing' = IF continue THEN is_playing ELSE FALSE
          /\ mz' = [mz EXCEPT !.cb = "idle", !.pos = @ + r, !.eos = @ \/ r = 0,
                              !.stale = MaxReq - r,
                              !.stream = IF continue THEN @ ELSE "complete"]
    /\ UNCHANGED <<is_paused, total_frames, pa_res, mozIdle>>

\* ---- Pa_StopStream / Pa_StartStream / Pa_CloseStream / sf_close on the locals ----
\* Each is given whatever the variable holds; applied to a handle that is not
\* open it is recorded as a misuse.
StopStream(m) == IF StreamOpen(m.stream) THEN [m EXCEPT !.stream = "stopped"]
                 ELSE [m EXCEPT !.misuse = TRUE]
StartStream(m) == IF StreamOpen(m.stream) THEN [m EXCEPT !.stream = "active"]
                  ELSE [m EXCEPT !.misuse = TRUE]
CloseStream(m) == IF StreamOpen(m.stream) THEN [m EXCEPT !.stream = "closed"]
                  ELSE [m EXCEPT !.misuse = TRUE]
CloseFile(m) == IF m.sf = "open" THEN [m EXCEPT !.sf = "closed"]
                ELSE [m EXCEPT !.misuse = TRUE]
TeardownStreamLeftOpen(m) == CloseFile(StopStream(m))

\* lines 440-443 and 471-474
Teardown(m) == CloseFile(CloseStream(StopStream(m)))

\* ---- PlayAudio (mz.cpp 227-262) ----
\* No callback runs during the call unless it succeeds: the caller has stopped
\* the previous stream or it has completed.  A handle that is overwritten
\* while still open is leaked.
MzOpened(m, f) ==
    [m EXCEPT !.sf = "open", !.len = f.n, !.pos = 0, !.eos = FALSE, !.stale = 0,
              !.leaked = @ \/ m.sf = "open", !.bound = FALSE]

\* lines 231-234 and 250-254: the file is closed again and the variable stream
\* is not written; a stream it still holds keeps reading its own file, so
\* len, pos and eos stay those of that file
MzFailed(m, f) ==
    LET o == CloseFile(MzOpened(m, f))
    IN IF StreamOpen(m.stream)
       THEN [o EXCEPT !.len = m.len, !.pos = m.pos, !.eos = m.eos]
       ELSE o

PlayAudioMz(f) ==
    /\ mz.pc = "play"
    /\ \E res \in {"open_error", "init_error", "stream_error", "start_error", "ok"} :
         /\ (f.kind = "bad") = (res = "open_error")
         /\ pa_res' = IF res = "ok" THEN "ok"
                      ELSE IF res = "open_error" THEN res ELSE "device_error"
         /\ CASE res = "open_error" ->       \* lines 228-229
                   /\ mz' = [mz EXCEPT !.sf = "null", !.leaked = @ \/ mz.sf = "open",
                                       !.bound = FALSE, !.pc = "enter_set"]
                   /\ UNCHANGED <<total_frames, current_frame>>
              [] res = "init_error" ->       \* lines 231-234
                   /\ mz' = [MzFailed(mz, f) EXCEPT !.pc = "enter_set"]
                   /\ UNCHANGED <<total_frames, current_frame>>
              [] res = "stream_error" ->     \* lines 236-254
                   /\ mz' = [MzFailed(mz, f) EXCEPT !.pc = "enter_set"]
                   /\ total_frames' = f.n /\ current_frame' = 0
              [] res = "start_error" ->      \* lines 236-261
                   /\ mz' = [CloseFile(MzOpened(mz, f)) EXCEPT !.pc = "enter_set",
                                 !.stream = "closed", !.bound = TRUE,
                                 !.leaked = @ \/ StreamOpen(mz.stream)]
                   /\ total_frames' = f.n /\ current_frame' = 0
              [] OTHER ->                    \* lines 236-256: the stream is started
                   /\ mz' = [MzOpened(mz, f) EXCEPT !.stream = "active", !.pc = "enter_set",
                                 !.bound = TRUE,
                                 !.leaked = @ \/ StreamOpen(mz.stream)]
                   /\ total_frames' = f.n /\ current_frame' = 0
    /\ UNCHANGED <<is_playing, is_paused, mozIdle>>

\* ---- run_playback_tui (mz.cpp 334-476) ----
\* lines 438-446: Enter tears the session down when is_playing is set.
\* Pa_StopStream returns only when no callback is running.
MzEnter ==
    /\ mz.pc = "tui"
    /\ IF is_playing
       THEN /\ mz.stream = "active" => mz.cb = "idle"
            /\ mz' = [Teardown(mz) EXCEPT !.pc = "play"]
            /\ is_playing' = FALSE /\ is_paused' = FALSE
       ELSE /\ mz' = [mz EXCEPT !.pc = "play"]
            /\ UNCHANGED <<is_playing, is_paused>>
    /\ UNCHANGED <<total_frames, current_frame, pa_res, mozIdle>>

\* line 448
MzPlay == \E f \in LocalFiles : PlayAudioMz(f)

\* line 449: is_playing = true, whatever PlayAudio did
MzEnterSet ==
    /\ mz.pc = "enter_set"
    /\ is_playing' = TRUE
    /\ pa_res' = "none"
    /\ mz' = [mz EXCEPT !.pc = "tui"]
    /\ UNCHANGED <<is_paused, total_frames, current_frame, mozIdle>>

\* lines 451-457: Space starts the stream again when paused, stops it otherwise
MzSpace ==
    /\ mz.pc = "tui"
    /\ IF is_playing
       THEN IF is_paused
            THEN mz' = [StartStream(mz) EXCEPT !.pc = "space_set"]
            ELSE /\ mz.stream = "active" => mz.cb = "idle"
                 /\ mz' = [StopStream(mz) EXCEPT !.pc = "space_set"]
       ELSE UNCHANGED mz
    /\ UNCHANGED <<transport, pa_res, mozIdle>>

\* lines 455 and 458: the flag follows the stream call
MzSpaceSet ==
    /\ mz.pc = "space_set"
    /\ is_paused' = ~is_paused
    /\ mz' = [mz EXCEPT !.pc = "tui"]
    /\ UNCHANGED <<is_playing, total_frames, current_frame, pa_res, mozIdle>>

\* lines 354 and 469-475: Escape, then the exit cleanup
MzEscape ==
    /\ mz.pc = "tui"
    /\ IF is_playing
       THEN /\ mz.stream = "active" => mz.cb = "idle"
            /\ mz' = [Teardown(mz) EXCEPT !.pc = "done"]
       ELSE mz' = [mz EXCEPT !.pc = "done"]
    /\ UNCHANGED <<transport, pa_res, mozIdle>>

InitMz ==
    /\ is_playing = FALSE /\ is_paused = FALSE
    /\ total_frames = 0 /\ current_frame = 0
    /\ g_pw_data = 0
    /\ sess = [i \in Ids |-> NullSession]
    /\ nextId = 1
    /\ mode = "mz"
    /\ pc = [t \in Threads |-> "none"]
    /\ ret = [t \in Threads |-> "none"]
    /\ sret = [t \in Threads |-> "none"]
    /\ arg = [t \in Threads |-> NoArg]
    /\ pa_res = "none"
    /\ fifo = {}
    /\ cache = [v \in Vids |-> -1]
    /\ prod = NoProd
    /\ sel = NoSel
    /\ mz = [MzOff EXCEPT !.pc = "tui"]
    /\ files = 0 /\ selected_item = 0

NextMz ==
    \/ PaCallbackBegin \/ PaCallbackRead
    \/ MzEnter \/ MzPlay \/ MzEnterSet \/ MzSpace \/ MzSpaceSet \/ MzEscape

SpecMz == InitMz /\ [][NextMz]_vars

\* ======================= unnamed/part_001 (PortAudio, audio thread) =======================
\* The earlier revision of the PortAudio player: PlayAudio runs on its own
\* thread (audio_thread, here the thread "play") and holds stream and sf as
\* locals, kept in the record mz; is_playing is the only transport field.
\* pc["play"] = "none" is an audio_thread that is not joinable.

\* ---- paCallback (part_001 53-68): read, continue while frames came and is_playing ----
PaCallbackP1 ==
    /\ mode = "part_001" /\ mz.stream = "active"
    /\ LET r == Min(MaxReq, mz.len - mz.pos)
           continue == r > 0 /\ is_playing
       IN /\ is_playing' = IF continue THEN is_playing ELSE FALSE
          /\ mz' = [mz EXCEPT !.pos = @ + r, !.eos = @ \/ r = 0,
                              !.stream = IF continue THEN @ ELSE "complete"]
    /\ UNCHANGED <<is_paused, total_frames, current_frame, pa_res, mozIdle>>

\* ---- PlayAudio (part_001 71-119) ----
\* lines 77-107: sf_open, Pa_Initialize, Pa_OpenStream, Pa_StartStream; each
\* failure closes what was opened and returns
PlayAudioP1Open ==
    /\ pc["play"] = "p1_open"
    /\ \E res \in {"open_error", "init_error", "stream_error", "start_error", "ok"} :
         /\ (arg["play"].kind = "bad") = (res = "open_error")
         /\ CASE res = "open_error" ->
                   mz' = [mz EXCEPT !.sf = "null", !.stream = "null", !.bound = FALSE,
                                    !.leaked = @ \/ mz.sf = "open" \/ StreamOpen(mz.stream)]
              [] res \in {"init_error", "stream_error"} ->
                   mz' = [CloseFile(MzOpened(mz, arg["play"])) EXCEPT !.stream = "null",
                              !.leaked = @ \/ mz.sf = "open" \/ StreamOpen(mz.stream)]
              [] res = "start_error" ->
                   mz' = [CloseFile(MzOpened(mz, arg["play"])) EXCEPT !.stream = "closed",
                              !.bound = TRUE,
                              !.leaked = @ \/ mz.sf = "open" \/ StreamOpen(mz.stream)]
              [] OTHER ->
                   mz' = [MzOpened(mz, arg["play"]) EXCEPT !.stream = "active",
                              !.bound = TRUE,
                              !.leaked = @ \/ mz.sf = "open" \/ StreamOpen(mz.stream)]
         /\ pc' = [pc EXCEPT !["play"] = IF res = "ok" THEN "p1_set" ELSE "p1_returned"]
    /\ arg' = [arg EXCEPT !["play"] = NoArg]
    /\ UNCHANGED <<transport, g_pw_data, sess, nextId, ret, sret, pa_res, mode, browser,
                   pipeline, sel>>

\* line 109
PlayAudioP1Set ==
    /\ pc["play"] = "p1_set"
    /\ is_playing' = TRUE
    /\ Goto("play", "p1_loop")
    /\ UNCHANGED <<is_paused, total_frames, current_frame, g_pw_data, sess, nextId,
                   ret, sret, arg, pa_res, mode, browser, pipeline, sel, mz>>

\* lines 111-119: the wait ends when is_playing is found false; then
\* Pa_StopStream, Pa_CloseStream, Pa_Terminate, sf_close and the return
PlayAudioP1Finish ==
    /\ pc["play"] = "p1_loop" /\ ~is_playing
    /\ mz' = Teardown(mz)
    /\ Goto("play", "p1_returned")
    /\ UNCHANGED <<transport, g_pw_data, sess, nextId, ret, sret, arg, pa_res, mode, browser,
                   pipeline, sel>>

\* ---- run_playback_tui (part_001 201-286) ----
EnterP1NoJoin ==
    /\ mode = "part_001" /\ pc["ctl"] = "p1_tui"
    /\ Goto("ctl", "p1_create")
    /\ UNCHANGED <<transport, g_pw_data, sess, nextId, ret, sret, arg, pa_res, mode, browser,
                   pipeline, sel, mz>>

\* lines 266-268: Enter; a joinable audio_thread is told to stop first
EnterP1 ==
    /\ mode = "part_001" /\ pc["ctl"] = "p1_tui"
    /\ IF pc["play"] # "none"
       THEN is_playing' = FALSE /\ Goto("ctl", "p1_enter_join")
       ELSE UNCHANGED is_playing /\ Goto("ctl", "p1_create")
    /\ UNCHANGED <<is_paused, total_frames, current_frame, g_pw_data, sess, nextId,
                   ret, sret, arg, pa_res, mode, browser, pipeline, sel, mz>>

\* lines 269 and 284: join returns when PlayAudio has returned
JoinP1 ==
    /\ pc["ctl"] \in {"p1_enter_join", "p1_exit_join"} /\ pc["play"] = "p1_returned"
    /\ pc' = [pc EXCEPT !["play"] = "none",
                        !["ctl"] = IF @ = "p1_enter_join" THEN "p1_create" ELSE "done"]
    /\ UNCHANGED <<transport, g_pw_data, sess, nextId, ret, sret, arg, pa_res, mode, browser,
                   pipeline, sel, mz>>

\* line 271: audio_thread = std::thread(PlayAudio, file)
CreateP1 ==
    /\ pc["ctl"] = "p1_create"
    /\ \E f \in LocalFiles : arg' = [arg EXCEPT !["play"] = f]
    /\ pc' = [pc EXCEPT !["play"] = "p1_open", !["ctl"] = "p1_tui"]
    /\ UNCHANGED <<transport, g_pw_data, sess, nextId, ret, sret, pa_res, mode, browser,
                   pipeline, sel, mz>>

\* lines 273-279: Space toggles is_playing
SpaceP1 ==
    /\ mode = "part_001" /\ pc["ctl"] = "p1_tui"
    /\ is_playing' = ~is_playing
    /\ UNCHANGED <<is_paused, total_frames, current_frame, g_pw_data, sess, nextId,
                   pc, ret, sret, arg, pa_res, mode, browser, pipeline, sel, mz>>

\* lines 218 and 282-285: Escape leaves the loop; a joinable thread is joined
EscapeP1 ==
    /\ mode = "part_001" /\ pc["ctl"] = "p1_tui"
    /\ IF pc["play"] # "none"
       THEN is_playing' = FALSE /\ Goto("ctl", "p1_exit_join")
       ELSE UNCHANGED is_playing /\ Goto("ctl", "done")
    /\ UNCHANGED <<is_paused, total_frames, current_frame, g_pw_data, sess, nextId,
                   ret, sret, arg, pa_res, mode, browser, pipeline, sel, mz>>

InitP1 ==
    /\ is_playing = FALSE /\ is_paused = FALSE
    /\ total_frames = 0 /\ current_frame = 0
    /\ g_pw_data = 0
    /\ sess = [i \in Ids |-> NullSession]
    /\ nextId = 1
    /\ mode = "part_001"
    /\ pc = [t \in Threads |-> IF t = "ctl" THEN "p1_tui" ELSE "none"]
    /\ ret = [t \in Threads |-> "none"]
    /\ sret = [t \in Threads |-> "none"]
    /\ arg = [t \in Threads |-> NoArg]
    /\ pa_res = "none"
    /\ fifo = {}
    /\ cache = [v \in Vids |-> -1]
    /\ prod = NoProd
    /\ sel = NoSel
    /\ mz = MzOff
    /\ files = 0 /\ selected_item = 0

NextP1 ==
    \/ PaCallbackP1
    \/ PlayAudioP1Open \/ PlayAudioP1Set \/ PlayAudioP1Finish
    \/ EnterP1 \/ JoinP1 \/ CreateP1 \/ SpaceP1 \/ EscapeP1

SpecP1 == InitP1 /\ [][NextP1]_vars

\* ---- PlayAudio and StopAudio called in any order ----
\* The control thread as an arbitrary caller: it writes the flags as the play
\* paths do (lines 681-682, 592-593, 900) and calls PlayAudio (line 281) or
\* StopAudio (line 368) with whatever state it finds, StopAudio also twice
\* in a row.
CallerWrites ==
    /\ mode = "calls" /\ pc["ctl"] = "caller"
    /\ \E p \in BOOLEAN, q \in BOOLEAN :
         /\ <<p, q>> # <<is_playing, is_paused>>
         /\ is_playing' = p /\ is_paused' = q
    /\ UNCHANGED <<total_frames, current_frame, g_pw_data, sess, nextId, pc, ret, sret,
                   arg, pa_res, mode, browser, pipeline, sel, mz>>

CallPlayAudio ==
    /\ mode = "calls" /\ pc["ctl"] \in {"caller", "stopped", "stopped_again"}
    /\ nextId <= MaxSessions
    /\ \E f \in LocalFiles : arg' = [arg EXCEPT !["ctl"] = f]
    /\ ret' = [ret EXCEPT !["ctl"] = "caller"]
    /\ Goto("ctl", "pa_entry")
    /\ UNCHANGED <<transport, g_pw_data, sess, nextId, sret, pa_res, mode, browser, pipeline,
                   sel, mz>>

CallStopAudio ==
    /\ mode = "calls" /\ pc["ctl"] \in {"caller", "stopped", "stopped_again"}
    /\ sret' = [sret EXCEPT !["ctl"] = IF pc["ctl"] = "caller" THEN "stopped"
                                       ELSE "stopped_again"]
    /\ Goto("ctl", "sa_entry")
    /\ UNCHANGED <<transport, g_pw_data, sess, nextId, ret, arg, pa_res, mode, browser, pipeline,
                   sel, mz>>

InitCalls ==
    /\ is_playing = FALSE /\ is_paused = FALSE
    /\ total_frames = 0 /\ current_frame = 0
    /\ g_pw_data = 0
    /\ sess = [i \in Ids |-> NullSession]
    /\ nextId = 1
    /\ mode = "calls"
    /\ pc = [t \in Threads |-> IF t = "ctl" THEN "caller" ELSE "none"]
    /\ ret = [t \in Threads |-> "none"]
    /\ sret = [t \in Threads |-> "none"]
    /\ arg = [t \in Threads |-> NoArg]
    /\ pa_res = "none"
    /\ fifo = {}
    /\ cache = [v \in Vids |-> -1]
    /\ prod = NoProd
    /\ sel = NoSel
    /\ mz = MzOff
    /\ files = 0 /\ selected_item = 0

NextCalls ==
    \/ CallerWrites \/ CallPlayAudio \/ CallStopAudio
    \/ \E t \in Threads : PlayAudio(t) \/ StopAudio(t)
    \/ \E i \in Ids : \/ OnProcessBegin(i)
                      \/ OnProcessRead(i)
                      \/ LoopThreadRun(i)
                      \/ LoopThreadExit(i)

SpecCalls == InitCalls /\ [][NextCalls]_vars

\* both programs
SpecAll == (Init \/ InitMz) /\ [][Next \/ NextMz]_vars

\* ======================= properties of moz.cpp =======================
\* something of PWData i is still held
Live(i) ==
    \/ sess[i].pw = "open" \/ sess[i].sf = "open"
    \/ sess[i].loop = "open" \/ sess[i].stream = "open"
    \/ Joinable(sess[i])

\* C1: at every instant at most one playback session exists (one open sound
\* file, one stream, one loop, one loop thread), and it is the one
\* g_pw_data points to: a session being replaced is torn down completely
\* before anything of its successor is allocated.
C1_OneSession ==
    /\ \A i \in Ids : Live(i) => i = g_pw_data
    /\ Cardinality({i \in Ids : sess[i].sf = "open"}) <= 1
    /\ Cardinality({i \in Ids : sess[i].stream = "open"}) <= 1
    /\ Cardinality({i \in Ids : Joinable(sess[i])}) <= 1

\* PlayAudio was called while a session was streaming and is tearing it down:
\* thread joined, stream destroyed, nothing of the successor allocated yet
C1_Witness ==
    /\ pc["ctl"] = "sa_rest" /\ sret["ctl"] = "pa_new"
    /\ sess[g_pw_data].stream = "released" /\ sess[g_pw_data].thr = "joined"
    /\ sess[g_pw_data].sf = "open"

\* C2: when StopAudio has torn a session down and returns, is_playing and
\* is_paused are false, total_frames and current_frame are 0, g_pw_data is
\* null, and the stream, the loop, the sound file and the PWData object of
\* every session have been released (exactly once, the thread joined).
C2_StopLeavesNothing ==
    \A t \in Threads :
        pc[t] = "sa_ret" =>
            /\ ~is_playing /\ ~is_paused
            /\ total_frames = 0 /\ current_frame = 0
            /\ g_pw_data = 0
            /\ \A i \in Ids : i < nextId => sess[i] = Gone

\* StopAudio returns after PlayAudio of a local file (offline library)
C2_Witness ==
    /\ mode = "offline" /\ pc["ctl"] = "sa_ret" /\ sret["ctl"] = "pa_new"
    /\ arg["ctl"].kind = "file"

\* ======================= properties of both players =======================
\* C3: pausing never advances the position: while is_paused is and stays
\* true, a callback (on_process, paCallback) that finishes neither reads
\* from the sound file nor changes current_frame.
C3_PauseHoldsPosition ==
    [][(is_paused /\ is_paused') =>
          /\ \A i \in Ids :
               (sess[i].cb = "read" /\ sess'[i].cb = "idle") =>
                   (sess'[i].pos = sess[i].pos /\ current_frame' = current_frame)
          /\ (mz.cb = "read" /\ mz'.cb = "idle") =>
                   (mz'.pos = mz.pos /\ current_frame' = current_frame)]_vars

\* C4: once paCallback has read zero frames from the source and the Enter
\* handler has finished its writes around PlayAudio, is_playing is false,
\* however the callback's write and the handler's write were interleaved.
C4_EndOfStreamClears ==
    (mz.pc = "tui" /\ mz.eos) => ~is_playing

\* C5: in moz.cpp is_paused is never true while is_playing is false.
C5_PausedOnlyWhilePlaying ==
    mode \in {"offline", "online"} => (is_paused => is_playing)

\* C6: StopAudio called with g_pw_data null returns at once and changes
\* nothing; a second call in a row finds g_pw_data null, so it leaves the
\* state the first call left; whenever StopAudio has returned nothing of any
\* session is held, and no handle is ever released twice.
C6_StopIdempotent ==
    [][/\ (pc["ctl"] = "sa_entry" /\ g_pw_data = 0) =>
             /\ pc'["ctl"] = sret["ctl"]
             /\ UNCHANGED <<transport, g_pw_data, sess, nextId, pipeline>>
       /\ (pc["ctl"] = "sa_entry" /\ sret["ctl"] = "stopped_again") => g_pw_data = 0
       /\ pc'["ctl"] \in {"stopped", "stopped_again"} =>
             /\ g_pw_data' = 0
             /\ \A i \in Ids : i < nextId' => sess'[i] = Gone
       /\ \A i \in Ids :
             "invalid" \notin {sess'[i].pw, sess'[i].loop, sess'[i].stream, sess'[i].sf}
      ]_vars

\* PlayAudio succeeded, then StopAudio was called twice in a row
C6_Witness ==
    /\ mode = "calls" /\ pc["ctl"] = "stopped_again"
    /\ pa_res = "ok" /\ g_pw_data = 0 /\ sess[1] = Gone

\* C7: when progressive_stream_youtube has returned and its mkfifo had
\* succeeded, the FIFO of the selected video does not exist, on the
\* launch-failure path, after 'q' and after the stream ended by itself.
C7_FifoRemoved ==
    (pc["ctl"] = "search" /\ sel.made) => sel.vid \notin fifo

\* the stream ended by itself although the producer never wrote a frame
C7_Witness ==
    /\ pc["ctl"] = "search" /\ sel.made /\ sel.how = "self"
    /\ prod.vid = sel.vid /\ prod.st = "finished" /\ cache[sel.vid] = 0

\* C8: when 'q' has ended an online playback loop and control is back at the
\* search prompt, no stream invokes on_process, the loop thread is joined,
\* the sound file is closed, the producer is not running and the FIFO is
\* removed.
C8_QuitTearsDown ==
    (pc["ctl"] = "search" /\ sel.how = "q") =>
        /\ \A i \in Ids : ~CallbackCanRun(i) /\ ~Joinable(sess[i]) /\ sess[i].sf # "open"
        /\ sel.made => (prod.st \notin {"blocked", "writing"} /\ sel.vid \notin fifo)

\* C9: after a PlayAudio that created no session, is_playing is false once
\* the play path has done its own writes: at the offline key loop, in the
\* cached loop and in the streaming loop.
C9_FailedPlayNotPlaying ==
    /\ (mode = "offline" /\ pc["ctl"] = "tui" /\ g_pw_data = 0) => ~is_playing
    /\ (pc["ctl"] = "c_loop" /\ pa_res \in {"open_error", "device_error"}) => ~is_playing
    /\ (pc["ctl"] = "s_loop" /\ pc["play"] = "done"
           /\ pa_res \in {"open_error", "device_error"}) => ~is_playing

\* C10: a PlayAudio that fails on the output device leaves is_playing,
\* is_paused, total_frames and current_frame as they were before the call
\* and has closed the sound file it opened.  mz.cpp: the call as one step.
\* moz.cpp: the first call of the offline player, entered with the initial
\* values.
C10_DeviceFailureKeepsTransport ==
    [][/\ (mz.pc = "play" /\ pa_res' = "device_error") =>
             (transport' = transport /\ mz'.sf = "closed")
       /\ (mode = "offline" /\ nextId' = 2 /\ pc["ctl"] \in {"pa_fail_loop", "pa_fail_stream"}
              /\ pc'["ctl"] = "pa_null") =>
             (transport' = <<FALSE, FALSE, 0, 0>> /\ sess'[1] = Gone)]_vars

\* C11: when mkfifo fails, progressive_stream_youtube returns at once: the
\* step that leaves the mkfifo call without a FIFO goes back to the search
\* prompt, launches no producer, starts no play thread, calls no PlayAudio
\* and writes neither is_playing nor is_paused.
C11_NoFifoNoProducer ==
    [][(pc["ctl"] = "s_mkfifo" /\ pc'["ctl"] # "s_mkfifo" /\ ~sel'.made) =>
          /\ pc'["ctl"] = "search"
          /\ pc'["play"] = pc["play"]
          /\ UNCHANGED <<transport, prod, cache, g_pw_data, sess, nextId>>]_vars

\* back at the search prompt after the mkfifo of a stream selection failed
C11_Witness ==
    /\ pc["ctl"] = "search" /\ sel.vid # 0 /\ ~sel.made /\ cache[sel.vid] = -1

\* C12: cancellation stays possible while the FIFO open is waiting: once 'q'
\* has been pressed in the streaming loop, a play thread that is still on
\* its way to or inside sf_open of the FIFO has a writer to meet, so the
\* open returns and the join on the play thread completes.
C12_CancelDuringOpen ==
    (sel.how = "q" /\ pc["play"] \in {"pa_entry", "pa_new", "pa_open"}) =>
        (prod.st = "blocked" /\ prod.vid = sel.vid)

\* C13: a networked play runs its steps in this order: the existing session
\* is stopped before leftover producers are terminated; no producer runs when
\* the stale FIFO is removed and the fresh one created; the FIFO exists when
\* the producer is launched; and the play thread, which opens the FIFO in
\* PlayAudio, exists only after the launch for this selection has succeeded.
C13_StreamOrder ==
    /\ pc["ctl"] \in {"s_kill", "s_mkfifo", "s_launch", "s_set"} =>
          (g_pw_data = 0 /\ \A i \in Ids : ~Live(i))
    /\ pc["ctl"] \in {"s_mkfifo", "s_launch"} => prod.st \notin {"blocked", "writing"}
    /\ pc["ctl"] \in {"s_launch", "s_set"} => (sel.made /\ sel.vid \in fifo)
    /\ pc["ctl"] = "s_set" => (prod.st = "blocked" /\ prod.vid = sel.vid)
    /\ pc["play"] # "none" =>
          /\ pc["ctl"] \in {"s_loop", "s_key", "s_join"}
          /\ sel.made /\ prod.vid = sel.vid /\ prod.st # "none"
          /\ arg["play"].kind \in {"fifo", "none"}

\* the play thread of a second selection is opening the FIFO, the producer
\* launched for it waits on the other end
C13_Witness ==
    /\ pc["play"] = "pa_open" /\ arg["play"].kind = "fifo" /\ nextId = 3
    /\ prod.st = "blocked" /\ prod.vid = sel.vid /\ sel.vid \in fifo

\* C14: within one session is_playing falls once and does not rise again:
\* while the session g_pw_data points to stays the current one, is_playing
\* is not set to true after that session's callback has cleared it on a
\* zero-frame read, nor after the control thread has cleared it on 'q'.
C14_FallsOncePerSession ==
    [][(g_pw_data # 0 /\ g_pw_data' = g_pw_data
          /\ (sess[g_pw_data].eos \/ sel.how = "q")) =>
             ~(~is_playing /\ is_playing')]_vars

\* ======================= properties of mz.cpp =======================
\* C15: the session ends itself only on exhaustion: paCallback has returned
\* paComplete only if a read from the sound file returned zero frames.
C15_CompleteOnlyOnExhaustion ==
    mz.stream = "complete" => mz.eos

\* ======================= properties of the callbacks =======================
\* C16: after on_process has observed a zero-frame read the session has left
\* the streaming state: on_process is not invoked for it again and performs
\* no further read from its sound file.
C16_NoReadAfterExhaustion ==
    [][\A i \in Ids :
          sess[i].eos => ~(sess[i].cb = "idle" /\ sess'[i].cb = "read")]_vars

\* C17: on a short read the rest of the output buffer is zero-filled: no
\* buffer handed to the output device by on_process or paCallback holds a
\* frame that was neither read from the file nor set to zero.
C17_ShortReadZeroFilled ==
    /\ \A i \in Ids : sess[i].stale = 0
    /\ mz.stale = 0

\* ======================= properties of PlayAudio (moz.cpp) =======================
\* C18: teardown completes on every construction error path: when PlayAudio
\* has aborted (sf_open, pw_main_loop_new or pw_stream_new_simple failed),
\* everything the call allocated has been released exactly once, no loop
\* thread was started, and g_pw_data is null once the call has returned.
C18_FailedPlayReleasesAll ==
    pa_res \in {"open_error", "device_error"} =>
        /\ \A i \in Ids : i < nextId => sess[i] = Gone
        /\ g_pw_data = 0 \/ \E t \in Threads : pc[t] = "pa_null"

\* PlayAudio has returned after pw_stream_new_simple failed
C18_Witness ==
    /\ pa_res = "device_error" /\ g_pw_data = 0 /\ nextId > 1
    /\ \A t \in Threads : pc[t] # "pa_null"
    /\ total_frames > 0

C21_PositionWrittenByCallback ==
    [][/\ (\E t \in Threads : pc[t] \in {"pa_seek", "sa_rest"} /\ pc'[t] # pc[t]) =>
             \A i \in Ids : sess[i].stream # "open" /\ sess[i].cb = "idle"
       /\ (current_frame' # current_frame /\ \E i \in Ids : sess[i].stream = "open") =>
             \E i \in Ids : /\ CallbackCanRun(i)
                            /\ sess[i].cb = "read" /\ sess'[i].cb = "idle"]_vars

\* StopAudio is about to reset a position the callback had advanced; the
\* stream is destroyed already
C21_Witness ==
    /\ pc["ctl"] = "sa_rest" /\ current_frame > 0
    /\ sess[g_pw_data].stream = "released" /\ sess[g_pw_data].thr = "joined"

\* ======================= properties of the cache file =======================
\* C22: the player never deletes, truncates or writes a cache file: a cache
\* file that exists keeps at least its content across every step (play, stop,
\* stream teardown, program exit), and the only steps that change any cache
\* file are the running producer's, on the file of its own video.
C22_CacheFileKept ==
    [][/\ \A v \in Vids : cache[v] >= 0 => cache'[v] >= cache[v]
       /\ cache' # cache =>
             /\ prod.st \in {"blocked", "writing"} /\ prod'.st = "writing"
             /\ \A v \in Vids : v # prod.vid => cache'[v] = cache[v]]_vars

\* the program has exited after a stream was aborted with 'q' and its
\* truncated cache file was played back: the file is still there
C22_Witness ==
    /\ pc["ctl"] = "done" /\ prod.st = "dead" /\ cache[prod.vid] > 0
    /\ cache[prod.vid] < MaxFrames /\ nextId = 3

\* ======================= properties of run_playback_tui (mz.cpp) =======================
\* C23: every stream and sound file a PlayAudio call opened is stopped and
\* closed before the next PlayAudio call opens another one and before
\* run_playback_tui returns: no handle is overwritten while open, and at
\* the return neither the stream nor the sound file is open.
C23_ClosedBeforeNextAndExit ==
    /\ ~mz.leaked
    /\ mz.pc = "done" => (~StreamOpen(mz.stream) /\ mz.sf # "open")

\* ======================= properties of pause =======================
\* C24: pause is silence, not stopping the stream: a step of the Space
\* handling (moz.cpp offline and online loops, mz.cpp) changes is_paused and
\* nothing else; the stream it finds started stays started.
C24_PauseIsSilence ==
    [][/\ (pc["ctl"] \in {"tui", "space_toggle"} /\ pc'["ctl"] \in {"tui", "space_toggle"}
            /\ pc'["ctl"] # pc["ctl"]) =>
             UNCHANGED <<is_playing, total_frames, current_frame, g_pw_data, sess, pipeline>>
       /\ (pc["ctl"] \in {"c_key", "s_key"} /\ pc'["ctl"] # pc["ctl"]
            /\ is_paused' # is_paused) =>
             UNCHANGED <<is_playing, total_frames, current_frame, g_pw_data, sess, pipeline>>
       /\ (mz.pc \in {"tui", "space_set"} /\ mz'.pc \in {"tui", "space_set"}
            /\ mz'.pc # mz.pc) =>
             /\ UNCHANGED <<is_playing, total_frames, current_frame>>
             /\ mz'.stream = mz.stream /\ mz'.sf = mz.sf]_vars

\* C25: after every callback that was not paused and read at least one
\* frame, current_frame is the source's absolute frame position, the
\* previous position plus the frames read; and current_frame only ever
\* changes to such a position at the end of a callback or to 0.
C25_PositionIsSourcePosition ==
    [][/\ \A i \in Ids :
             (sess[i].cb = "read" /\ sess'[i].cb = "idle" /\ sess'[i].pos > sess[i].pos) =>
                 /\ sess'[i].pos = sess[i].pos + FramesRead(sess[i], sess[i].n)
                 /\ current_frame' = sess'[i].pos
       /\ (mz.cb = "read" /\ mz'.cb = "idle" /\ mz'.pos > mz.pos) =>
             current_frame' = mz'.pos
       /\ current_frame' # current_frame =>
             \/ current_frame' = 0
             \/ \E i \in Ids : /\ sess[i].cb = "read" /\ sess'[i].cb = "idle"
                               /\ current_frame' = sess'[i].pos
             \/ mz.cb = "read" /\ mz'.cb = "idle" /\ current_frame' = mz'.pos]_vars

\* ======================= properties of the session start =======================
\* C26: a PlayAudio that succeeds on a local file starts from the beginning:
\* as long as no callback of the new session can have run, the sound file is
\* at position 0, current_frame is 0 and total_frames is the file's frame
\* count; and total_frames is not written while the session's stream exists
\* (mz.cpp: by no step other than PlayAudio).
C26_StartsFromTheStart ==
    [][/\ \A i \in Ids :
             (sess'[i].kind = "file" /\ sess'[i].stream = "open" /\ ~sess'[i].conn) =>
                 /\ sess'[i].pos = 0 /\ current_frame' = 0
                 /\ total_frames' = sess'[i].len
       /\ (mz.pc = "play" /\ pa_res' = "ok") =>
             /\ mz'.stream = "active" /\ mz'.pos = 0 /\ current_frame' = 0
             /\ total_frames' = mz'.len
       /\ \A i \in Ids :
             (sess[i].stream = "open" /\ sess'[i].stream = "open") =>
                 total_frames' = total_frames
       /\ (mode = "mz" /\ mz.pc # "play") => total_frames' = total_frames]_vars

\* PlayAudio has returned for a second local file of full length, the loop
\* thread has not entered the loop yet
C26_Witness ==
    /\ pc["ctl"] = "enter_set" /\ pa_res = "ok" /\ g_pw_data = 2
    /\ sess[2].kind = "file" /\ sess[2].len = MaxFrames /\ sess[2].thr = "spawned"
    /\ total_frames = MaxFrames /\ sess[1] = Gone

\* ======================= properties of run_online_mode =======================
\* the control thread is on the cached play path of run_online_mode
OnCachedPath ==
    \/ pc["ctl"] \in {"c_stop", "c_kill", "c_set", "c_loop", "c_key"}
    \/ ret["ctl"] = "c_loop"
    \/ sret["ctl"] = "c_kill"

C28_FileClosedAfterStream ==
    /\ \A i \in Ids :
          (sess[i].stream = "open" \/ sess[i].cb = "read") => sess[i].sf = "open"
    /\ (mz.bound /\ (StreamOpen(mz.stream) \/ mz.cb = "read")) => mz.sf = "open"

\* the exit cleanup of run_playback_tui (moz.cpp) is about to close the sound
\* file of a session that had played: thread joined, stream destroyed
C28_Witness ==
    /\ pc["ctl"] = "xc_rest" /\ current_frame > 0
    /\ sess[g_pw_data].stream = "released" /\ sess[g_pw_data].sf = "open"

\* ======================= properties of StopAudio =======================
\* C29: StopAudio always returns: whenever a StopAudio call waits in its
\* join on the loop thread, the join can still complete, that is, the loop
\* thread is not inside pw_main_loop_run with the running flag set after the
\* quit request of this call has already been made.
C29_JoinCompletes ==
    \A t \in Threads :
        pc[t] = "sa_join" =>
            ~(sess[g_pw_data].thr = "running" /\ sess[g_pw_data].running)

\* ======================= properties of the audio thread (part_001) =======================
\* C30: at most one audio thread and one open stream exist at any instant:
\* Enter and the return of run_playback_tui, when audio_thread is joinable,
\* clear is_playing and join; a thread is created only when none exists;
\* a PlayAudio that has returned has closed its stream and its sound file,
\* so both are closed when the next thread is created and at the return.
C30_OneAudioThread ==
    [][/\ (pc["ctl"] = "p1_tui" /\ pc'["ctl"] # "p1_tui" /\ pc["play"] # "none") =>
             (~is_playing' /\ pc'["ctl"] \in {"p1_enter_join", "p1_exit_join"})
       /\ (pc["play"] # "p1_open" /\ pc'["play"] = "p1_open") =>
             (pc["play"] = "none" /\ ~StreamOpen(mz.stream) /\ mz.sf # "open")
       /\ pc'["play"] \in {"none", "p1_returned"} =>
             (~StreamOpen(mz'.stream) /\ mz'.sf # "open")
       /\ pc'["ctl"] = "done" => pc'["play"] = "none"
       /\ ~mz'.leaked /\ ~mz'.misuse]_vars

\* Enter was pressed while a track was playing: its thread is joined, its
\* stream and sound file are closed, the new thread is not created yet
C30_Witness ==
    /\ pc["ctl"] = "p1_create" /\ pc["play"] = "none"
    /\ mz.stream = "closed" /\ mz.sf = "closed" /\ mz.pos > 0 /\ ~mz.eos

\* ======================= properties of the streaming loop =======================
\* C31: every pass of the polling loop of progressive_stream_youtube that
\* finds g_pw_data set finds a fully constructed PWData that is not being
\* freed: the play thread is not inside PlayAudio, constructing the session
\* or deleting it on an error path, and the object has not been deleted.
C31_PollSeesWholeSession ==
    (pc["ctl"] = "s_key" /\ g_pw_data # 0) =>
        /\ pc["play"] = "done"
        /\ sess[g_pw_data].pw = "open"

\* ======================= properties of the three teardown sites =======================
\* C32: every session's stream, main loop, sound file and PWData object are
\* released exactly once over a run of moz.cpp: StopAudio, the exit cleanup
\* of run_playback_tui and the final cleanup of main never release a handle
\* twice (or one that was never set), and when the program has exited every
\* session PlayAudio created is released and its loop thread joined.
C32_ReleasedExactlyOnce ==
    /\ \A i \in Ids :
          "invalid" \notin {sess[i].pw, sess[i].loop, sess[i].stream, sess[i].sf}
    /\ pc["ctl"] = "done" => \A i \in Ids : i < nextId => sess[i] = Gone

\* the offline player has exited; its second session had played and was
\* released by the exit cleanup, which leaves current_frame as it was
C32_Witness ==
    /\ mode = "offline" /\ pc["ctl"] = "done" /\ nextId = 3
    /\ current_frame > 0 /\ g_pw_data = 0 /\ sess[2] = Gone

\* ======================= properties of the handles (mz.cpp) =======================
\* C33: Pa_StopStream, Pa_StartStream, Pa_CloseStream and sf_close are only
\* applied to a stream and a sound file that are open: no such call has been
\* made on a handle that is null or closed, and whenever the key loop runs
\* with is_playing true the variables stream and sf hold an open stream and
\* an open file.
C33_HandlesOpenWhenUsed ==
    /\ ~mz.misuse
    /\ (mode = "mz" /\ mz.pc = "tui" /\ is_playing) =>
          (StreamOpen(mz.stream) /\ mz.sf = "open")

\* C34: in part_001 is_playing is true only while an audio thread holds an
\* open, started stream; in particular Space pressed with nothing playing
\* leaves it false.
C34_PlayingOnlyWithStream ==
    (mode = "part_001" /\ is_playing) =>
        (pc["play"] = "p1_loop" /\ mz.stream = "active")

\* ======================= properties of the counters =======================
\* C35: while a session plays a local file, 0 <= current_frame <= total_frames
\* (moz.cpp: once PlayAudio has stored the counters of the session g_pw_data
\* points to; mz.cpp: while the stream is started), and current_frame
\* decreases only by a reset to 0.
C35_PositionWithinTotal ==
    [][/\ (/\ g_pw_data' # 0 /\ sess'[g_pw_data'].kind = "file"
           /\ \A t \in Threads : pc'[t] # "pa_seek") =>
             (0 <= current_frame' /\ current_frame' <= total_frames')
       /\ (mode = "mz" /\ mz'.stream = "active") =>
             (0 <= current_frame' /\ current_frame' <= total_frames')
       /\ (/\ current_frame' < current_frame
           /\ mode = "mz" \/ (g_pw_data # 0 /\ sess[g_pw_data].kind = "file")) =>
             current_frame' = 0]_vars

\* ======================= the file list =======================
\* C36: selected_item is a valid index of files when Enter passes
\* files[selected_item] to PlayAudio and when the now-playing panel, drawn at
\* the head of every iteration with is_playing set, reads files[selected_item].
C36_SelectedItemValid ==
    (/\ mode = "offline"
     /\ \/ pc["ctl"] = "pa_entry" /\ ret["ctl"] = "enter_set"
        \/ pc["ctl"] = "tui" /\ is_playing) =>
        (0 <= selected_item /\ selected_item < files)
====
